---------------------------- MODULE Spec2Model ----------------------------
(***************************************************************************)
(* Model of the alpha_solve_numerical plug-ins:                            *)
(*   evaluate_num_macro.py  (meta_evaluate_num_functions,                  *)
(*                           evaluate_num_functions)                       *)
(*   evaluate_numerical.py, find_roots.py, solve_numerical.py              *)
(*                                                                         *)
(* A LaTeX text is a sequence of one-character strings.  Positions are     *)
(* 1-based here; a Python index i is position i + 1.                       *)
(***************************************************************************)
EXTENDS Integers, Sequences, FiniteSets, TLC

(***************************************************************************)
(* Bounds of the model.                                                    *)
(***************************************************************************)
\* number of segments an input LaTeX text is assembled from
MaxSegs == 3

(***************************************************************************)
(* Input texts.  A text is assembled from named segments, so that the     *)
(* cases of the macro (a trigger, nesting, \left( \right), a failing       *)
(* operand, an unclosed parenthesis, a text that looks like the failure    *)
(* marker) all occur within short inputs.                                  *)
(***************************************************************************)
SegNames ==
  {"numpi", "npi", "nleft", "sin2", "nbad", "nopen", "numopen", "close", "plus",
   "marker"}

SegText(s) ==
  CASE s = "numpi"   -> <<"n","u","m","(","\\","p","i",")">>
    [] s = "npi"     -> <<"n","(","\\","p","i",")">>
    [] s = "nleft"   -> <<"\\","n"," ","\\","l","e","f","t","(","2","\\","r","i","g","h","t",")">>
    [] s = "sin2"    -> <<"\\","s","i","n","(","2",")">>
    [] s = "nbad"    -> <<"n","(","{",")">>
    [] s = "nopen"   -> <<"n","(","(","2",")">>
    [] s = "numopen" -> <<"n","u","m","(","\\","p","i">>
    [] s = "close"   -> <<")">>
    [] s = "plus"    -> <<" ","+"," ">>
    [] s = "marker"  -> <<"_","_","N","U","M","_","F","A","I","L","E","D","_","0","_","_">>
    [] s = "ny"      -> <<"n","(","y",")">>

RECURSIVE Flatten(_)
Flatten(ss) == IF ss = <<>> THEN <<>> ELSE SegText(Head(ss)) \o Flatten(Tail(ss))

RECURSIVE SeqsUpTo(_, _)
SeqsUpTo(S, n) ==
  IF n = 0 THEN {<<>>}
  ELSE LET shorter == SeqsUpTo(S, n - 1)
       IN  shorter \cup {Append(q, s) : q \in shorter, s \in S}

InputSegs == SeqsUpTo(SegNames, MaxSegs) \ {<<>>}

(***************************************************************************)
(* String primitives of the Python code.                                   *)
(***************************************************************************)
\* t[i:i+len(w)] == w  (a slice past the end is shorter, hence unequal)
IsAt(t, i, w) ==
  /\ i >= 1
  /\ i + Len(w) - 1 <= Len(t)
  /\ SubSeq(t, i, i + Len(w) - 1) = w

\* the characters \s matches among those of the model's texts
Whitespace == {" "}

RECURSIVE LStrip(_)
LStrip(t) == IF t # <<>> /\ Head(t) \in Whitespace THEN LStrip(Tail(t)) ELSE t

RECURSIVE RStrip(_)
RStrip(t) ==
  IF t # <<>> /\ t[Len(t)] \in Whitespace THEN RStrip(SubSeq(t, 1, Len(t) - 1)) ELSE t

\* str.strip()
Strip(t) == RStrip(LStrip(t))

\* str.endswith(w)
EndsWith(t, w) == Len(w) <= Len(t) /\ SubSeq(t, Len(t) - Len(w) + 1, Len(t)) = w

\* str.replace(old, new): every non-overlapping occurrence, left to right
RECURSIVE ReplaceFrom(_, _, _, _)
ReplaceFrom(t, i, old, new) ==
  IF i > Len(t) THEN <<>>
  ELSE IF IsAt(t, i, old) THEN new \o ReplaceFrom(t, i + Len(old), old, new)
  ELSE <<t[i]>> \o ReplaceFrom(t, i + 1, old, new)

Replace(t, old, new) == ReplaceFrom(t, 1, old, new)

Digit(d) == CASE d = 0 -> "0" [] d = 1 -> "1" [] d = 2 -> "2" [] d = 3 -> "3"
              [] d = 4 -> "4" [] d = 5 -> "5" [] d = 6 -> "6" [] d = 7 -> "7"
              [] d = 8 -> "8" [] d = 9 -> "9"

\* str(n) of a non-negative int, as the f-string formats match.start()
RECURSIVE DecStr(_)
DecStr(n) == IF n < 10 THEN <<Digit(n)>> ELSE DecStr(n \div 10) \o <<Digit(n % 10)>>

(***************************************************************************)
(* The trigger pattern  \\?n\s*(?:\\left)?\(  and re.search.               *)
(***************************************************************************)
LeftCmd == <<"\\","l","e","f","t">>
LeftParen == <<"\\","l","e","f","t","(">>
RightParen == <<"\\","r","i","g","h","t",")">>

RECURSIVE SkipWhitespace(_, _)
SkipWhitespace(t, i) ==
  IF i <= Len(t) /\ t[i] \in Whitespace THEN SkipWhitespace(t, i + 1) ELSE i

\* the rest of the pattern after the letter:  \s*(?:\\left)?\(   from position q;
\* the position just after the match, or 0 when it does not match
PatternTail(t, q) ==
  LET r == SkipWhitespace(t, q)
  IN  IF IsAt(t, r, LeftCmd) /\ IsAt(t, r + Len(LeftCmd), <<"(">>) THEN r + Len(LeftParen)
      ELSE IF IsAt(t, r, <<"(">>) THEN r + 1
      ELSE 0

\* the pattern anchored at position p: match.end() as a position, or 0
MatchEndAt(t, p) ==
  IF IsAt(t, p, <<"\\","n">>) THEN PatternTail(t, p + 2)
  ELSE IF IsAt(t, p, <<"n">>) THEN PatternTail(t, p + 1)
  ELSE 0

\* re.search(pattern, t): the leftmost position the pattern matches at, or 0
SearchStart(t) ==
  LET hits == {p \in 1..Len(t) : MatchEndAt(t, p) # 0}
  IN  IF hits = {} THEN 0 ELSE CHOOSE p \in hits : \A q \in hits : p <= q

(***************************************************************************)
(* State of the macro.                                                     *)
(***************************************************************************)
VARIABLES
  segs,            \* the segments input_data.latex is assembled from
  input_latex,     \* input_data.latex of the macro
  modified_latex,  \* the text being rewritten by evaluate_num_functions
  pc,              \* "loop": at the head of `while True`; "done": returned
  stop,            \* how the loop was left: "none", "nomatch", "unmatched", "evalfail"
  before,          \* modified_latex at the head of the last iteration run
  rewrites,        \* the operands replaced so far, in order: [operand, result]
  meta_called,     \* meta_evaluate_num_functions has returned
  use_result       \* its MetaFunctionResult.use_result

macroVars ==
  <<segs, input_latex, modified_latex, pc, stop, before, rewrites, meta_called, use_result>>

(***************************************************************************)
(* State of the cell plug-ins.  The worksheet threads one context through  *)
(* the calls: each call gets the new_context of the call before it.        *)
(***************************************************************************)
VARIABLES
  context,       \* input_data.context of the current (or last) call
  cell,          \* input_data.cell['latex'] of that call
  result,        \* the CellFunctionResult returned by the last call
  ppc,           \* "idle", "search" (inside the solver loops) or "returned"
  var,           \* the variable find_roots / solve_numerical solves for
  branch,        \* "combos" or "direct": the branch of solve_numerical (line 116)
  combos,        \* list(product(*value_lists)) of solve_numerical
  ci,            \* index of the combination being processed
  gi,            \* index of the next initial guess
  roots_found,   \* roots_found / all_solutions
  fsolve_calls,  \* calls of fsolve made by the current call
  brentq_calls   \* calls of brentq made by the current call

plugVars ==
  <<context, cell, result, ppc, var, branch, combos, ci, gi, roots_found, fsolve_calls,
    brentq_calls>>

vars == <<macroVars, plugVars>>

(***************************************************************************)
(* The parenthesis scan of evaluate_num_functions (lines 52-72): from i    *)
(* with paren_count open parentheses, to the position after the matching   *)
(* close or to the end of the text.                                        *)
(***************************************************************************)
RECURSIVE ScanFlat(_, _, _)
\* a scan that does not count nested opening parentheses
ScanFlat(t, i, paren_count) ==
  IF ~(i <= Len(t) /\ paren_count > 0) THEN [i |-> i, paren_count |-> paren_count]
  ELSE IF IsAt(t, i, RightParen) THEN ScanFlat(t, i + 7, paren_count - 1)
  ELSE IF t[i] = ")" THEN ScanFlat(t, i + 1, paren_count - 1)
  ELSE ScanFlat(t, i + 1, paren_count)

RECURSIVE ParenScan(_, _, _)
ParenScan(t, i, paren_count) ==
  IF ~(i <= Len(t) /\ paren_count > 0) THEN [i |-> i, paren_count |-> paren_count]
  ELSE IF IsAt(t, i, LeftParen) THEN ParenScan(t, i + 6, paren_count + 1)
  ELSE IF IsAt(t, i, RightParen) THEN ParenScan(t, i + 7, paren_count - 1)
  ELSE IF t[i] = "(" THEN ParenScan(t, i + 1, paren_count + 1)
  ELSE IF t[i] = ")" THEN ParenScan(t, i + 1, paren_count - 1)
  ELSE ParenScan(t, i + 1, paren_count)

\* lines 78-85: the operand text between the opening and the closing parenthesis
ExprLatex(t, start_pos, end_pos) ==
  LET inner == Strip(SubSeq(t, start_pos, end_pos - 1))
  IN  IF EndsWith(inner, RightParen) THEN Strip(SubSeq(inner, 1, Len(inner) - 7))
      ELSE IF EndsWith(inner, <<")">>) THEN Strip(SubSeq(inner, 1, Len(inner) - 1))
      ELSE inner

(***************************************************************************)
(* from_latex, subs and N are external.  For the operands whose value is   *)
(* known the result text is that value; a malformed operand fails; for any *)
(* other operand the call may fail or produce a number.                    *)
(***************************************************************************)
PiText == <<"3",".","1","4">>
TwoText == <<"2",".","0">>

Ok(t) == [ok |-> TRUE, text |-> t]
Failed == [ok |-> FALSE, text |-> <<>>]

\* lines 91-119 for an operand that is the symbol name alone: the last
\* variable of that name with a usable first value is substituted (a numerical
\* value by its float, an analytical one by the expression parse_expr makes of
\* it), and the text of the result is returned; unbound, the symbol is its own
\* value
EvalSymbol(name) ==
  LET usable == {k \in 1..Len(context) :
                   /\ context[k].name = name
                   /\ context[k].values # <<>>
                   /\ \/ context[k].type = "analytical"
                      \/ /\ context[k].type = "numerical"
                         /\ context[k].values[1] # <<>>
                         /\ \A j \in 1..Len(context[k].values[1]) :
                              \E d \in 0..9 : Digit(d) = context[k].values[1][j]}
  IN  IF usable = {} THEN Ok(<<name>>)
      ELSE LET k == CHOOSE q \in usable : \A j \in usable : j <= q
           IN  IF context[k].type = "numerical"
               THEN Ok(context[k].values[1] \o <<".", "0">>)
               ELSE Ok(context[k].values[1])

EvalOutcomes(expr_latex) ==
  CASE expr_latex = <<"\\","p","i">> -> {Ok(PiText)}
    [] expr_latex = <<"y">>          -> {EvalSymbol("y")}
    [] expr_latex = <<"2">>          -> {Ok(TwoText)}
    [] expr_latex = <<"(","2",")">>  -> {Ok(TwoText)}
    [] expr_latex = <<"{">>          -> {Failed}
    [] OTHER                         -> {Failed, Ok(TwoText)}

\* line 129: f"__NUM_FAILED_{match.start()}__", match.start() being 0-based
Marker(start) ==
  <<"_","_","N","U","M","_","F","A","I","L","E","D","_">> \o DecStr(start - 1) \o <<"_","_">>

\* lines 129-133: put the marker in place of the occurrence, then replace the
\* marker by the occurrence again
RestoreFailed(t, start, end_pos) ==
  LET marker == Marker(start)
      full_match == SubSeq(t, start, end_pos - 1)
      marked == SubSeq(t, 1, start - 1) \o marker \o SubSeq(t, end_pos, Len(t))
  IN  Replace(marked, marker, full_match)

\* the match and the scan of one iteration (lines 39-72)
Iteration(t) ==
  LET start == SearchStart(t)
      start_pos == MatchEndAt(t, start)
      scan == ParenScan(t, start_pos, 1)
  IN  [start |-> start, start_pos |-> start_pos, end_pos |-> scan.i,
       paren_count |-> scan.paren_count]

(***************************************************************************)
(* Actions of the macro.                                                   *)
(***************************************************************************)
MacroInit ==
  /\ segs \in InputSegs
  /\ input_latex = Flatten(segs)
  /\ modified_latex = input_latex
  /\ pc = "loop"
  /\ stop = "none"
  /\ before = input_latex
  /\ rewrites = <<>>
  /\ meta_called = FALSE
  /\ use_result = FALSE

\* meta_evaluate_num_functions (lines 139-158)
HasNum(t) == SearchStart(t) # 0

MetaEvaluateNumFunctions ==
  /\ ~meta_called
  /\ meta_called' = TRUE
  /\ use_result' = HasNum(input_latex)
  /\ UNCHANGED <<plugVars, segs, input_latex, modified_latex, pc, stop, before, rewrites>>

\* lines 39-41: no match, leave the loop
NoMatch ==
  /\ pc = "loop"
  /\ SearchStart(modified_latex) = 0
  /\ pc' = "done"
  /\ stop' = "nomatch"
  /\ before' = modified_latex
  /\ UNCHANGED <<plugVars, segs, input_latex, modified_latex, rewrites, meta_called, use_result>>

\* lines 74-76: the scan ended with open parentheses, leave the loop
Unmatched ==
  /\ pc = "loop"
  /\ SearchStart(modified_latex) # 0
  /\ Iteration(modified_latex).paren_count # 0
  /\ pc' = "done"
  /\ stop' = "unmatched"
  /\ before' = modified_latex
  /\ UNCHANGED <<plugVars, segs, input_latex, modified_latex, rewrites, meta_called, use_result>>

\* passes of the loop a run of the model follows
MaxRewrites == 6

\* lines 87-123: the operand evaluates, the occurrence is replaced by the result
Rewrite ==
  /\ pc = "loop"
  /\ Len(rewrites) < MaxRewrites
  /\ SearchStart(modified_latex) # 0
  /\ LET it == Iteration(modified_latex)
         expr_latex == ExprLatex(modified_latex, it.start_pos, it.end_pos)
     IN  /\ it.paren_count = 0
         /\ \E r \in EvalOutcomes(expr_latex) :
              /\ r.ok
              /\ modified_latex' =
                   SubSeq(modified_latex, 1, it.start - 1) \o r.text
                     \o SubSeq(modified_latex, it.end_pos, Len(modified_latex))
              /\ rewrites' = Append(rewrites, [operand |-> expr_latex, result |-> r.text])
  /\ before' = modified_latex
  /\ UNCHANGED <<plugVars, segs, input_latex, pc, stop, meta_called, use_result>>

\* lines 125-134: the operand fails, the occurrence is restored and the loop left
EvalFail ==
  /\ pc = "loop"
  /\ SearchStart(modified_latex) # 0
  /\ LET it == Iteration(modified_latex)
         expr_latex == ExprLatex(modified_latex, it.start_pos, it.end_pos)
     IN  /\ it.paren_count = 0
         /\ \E r \in EvalOutcomes(expr_latex) : ~r.ok
         /\ modified_latex' = RestoreFailed(modified_latex, it.start, it.end_pos)
  /\ pc' = "done"
  /\ stop' = "evalfail"
  /\ before' = modified_latex
  /\ UNCHANGED <<plugVars, segs, input_latex, rewrites, meta_called, use_result>>

(***************************************************************************)
(* Numbers of the cell plug-ins.  A float is a fixed-point integer with    *)
(* Scale units to 1.0; round(x, 10) keeps the digits the rounding keeps,   *)
(* which here are the whole units, and the tolerance 1e-6 of the root      *)
(* checks is Tolerance units.                                              *)
(***************************************************************************)
Scale == 10
Tolerance == 5

Abs(v) == IF v < 0 THEN -v ELSE v

\* round(x, 10): to the nearest kept digit, a tie to the even one
Round(v) ==
  LET q == v \div Scale
      r == v % Scale
  IN  IF 2 * r < Scale THEN q * Scale
      ELSE IF 2 * r > Scale THEN (q + 1) * Scale
      ELSE IF q % 2 = 0 THEN q * Scale ELSE (q + 1) * Scale

\* str(x) of a float
FloatStr(v) ==
  (IF v < 0 THEN <<"-">> ELSE <<>>)
    \o DecStr(Abs(v) \div Scale) \o <<".">> \o DecStr(Abs(v) % Scale)

IsDigit(c) == c \in {"0","1","2","3","4","5","6","7","8","9"}

DigitVal(c) == CHOOSE d \in 0..9 : Digit(d) = c

RECURSIVE DigitsVal(_)
DigitsVal(t) ==
  IF t = <<>> THEN 0 ELSE DigitsVal(SubSeq(t, 1, Len(t) - 1)) * 10 + DigitVal(t[Len(t)])

AllDigits(t) == t # <<>> /\ \A k \in 1..Len(t) : IsDigit(t[k])

\* float(sympify(v)) of a value text: [ok, val]; a text that is no number has
\* no float value
ParseFloat(t) ==
  LET neg  == t # <<>> /\ Head(t) = "-"
      body == IF neg THEN Tail(t) ELSE t
      dots == {k \in 1..Len(body) : body[k] = "."}
      dot  == IF dots = {} THEN Len(body) + 1 ELSE CHOOSE k \in dots : \A j \in dots : k <= j
      int  == SubSeq(body, 1, dot - 1)
      frac == SubSeq(body, dot + 1, Len(body))
      mag  == DigitsVal(int) * Scale + (IF frac = <<>> THEN 0 ELSE DigitVal(frac[1]))
  IN  IF AllDigits(int) /\ (dots = {} \/ (Len(frac) = 1 /\ AllDigits(frac)))
      THEN [ok |-> TRUE, val |-> IF neg THEN -mag ELSE mag]
      ELSE [ok |-> FALSE, val |-> 0]

(***************************************************************************)
(* Variables and contexts (alpha_solve.Variable, alpha_solve.Context).     *)
(***************************************************************************)
\* entries of a variable's value list in the initial context
MaxVals == 2

Names == {"a", "x"}

\* a value text sympify cannot parse
BadValue == <<"(">>

ValueLists == SeqsUpTo({<<"3">>, <<"7">>}, MaxVals) \cup {<<BadValue>>}

\* Variable.create_numerical(name, values)
CreateNumerical(name, values) == [name |-> name, type |-> "numerical", values |-> values]

\* the contexts a worksheet starts from: names unique, any order, any values
InitContexts ==
  {<<>>}
    \cup {<<CreateNumerical(n, vs)>> : n \in Names, vs \in ValueLists}
    \cup UNION {{<<CreateNumerical(n, vs), CreateNumerical(m, ws)>> :
                    m \in Names \ {n}, vs \in ValueLists, ws \in ValueLists} : n \in Names}

\* {v.name for v in input_data.context.variables}
ContextVarNames(ctx) == {ctx[k].name : k \in 1..Len(ctx)}

(***************************************************************************)
(* Cells and the external expression bridge (from_latex, to_latex,         *)
(* lambdify).  The cells of the model are a fixed catalogue; from_latex    *)
(* fails on the malformed one and on the empty text.                       *)
(***************************************************************************)
CellPoly == <<"x","^","2","-","4">>
CellLin == <<"x","-","2">>
CellDiff == <<"x","-","a">>
CellConst == <<"7">>
CellEqLin == <<"x","+","a","=","5">>
CellEqOne == <<"x","+","3","=","5">>
CellBad == <<"\\","f","r","a","c","{">>
CellBlank == <<" ">>

Cells == {CellPoly, CellLin, CellDiff, CellConst, CellEqLin, CellEqOne, CellBad, CellBlank}

\* from_latex(latex): whether it parses, whether the expression is an
\* Equality, and its free symbols
FromLatex(latex) ==
  CASE latex = CellPoly   -> [ok |-> TRUE, is_equality |-> FALSE, free_symbols |-> {"x"}]
    [] latex = CellLin    -> [ok |-> TRUE, is_equality |-> FALSE, free_symbols |-> {"x"}]
    [] latex = CellDiff   -> [ok |-> TRUE, is_equality |-> FALSE, free_symbols |-> {"a", "x"}]
    [] latex = CellConst  -> [ok |-> TRUE, is_equality |-> FALSE, free_symbols |-> {}]
    [] latex = CellEqLin  -> [ok |-> TRUE, is_equality |-> TRUE, free_symbols |-> {"a", "x"}]
    [] latex = CellEqOne  -> [ok |-> TRUE, is_equality |-> TRUE, free_symbols |-> {"x"}]
    [] OTHER              -> [ok |-> FALSE, is_equality |-> FALSE, free_symbols |-> {}]

\* to_latex(expr): the rendering of the parsed expression
ToLatex(latex) ==
  CASE latex = CellPoly   -> <<"x","^","{","2","}"," ","-"," ","4">>
    [] latex = CellLin    -> <<"x"," ","-"," ","2">>
    [] latex = CellDiff   -> <<"-"," ","a"," ","+"," ","x">>
    [] latex = CellConst  -> <<"7">>
    [] latex = CellEqLin  -> <<"a"," ","+"," ","x"," ","="," ","5">>
    [] latex = CellEqOne  -> <<"x"," ","+"," ","3"," ","="," ","5">>

\* the value of lhs - rhs of an equation, or of a plain expression, at env
Residual(latex, env) ==
  CASE latex = CellPoly   -> (env["x"] * env["x"]) \div Scale - 4 * Scale
    [] latex = CellLin    -> env["x"] - 2 * Scale
    [] latex = CellDiff   -> env["x"] - env["a"]
    [] latex = CellConst  -> 7 * Scale
    [] latex = CellEqLin  -> env["x"] + env["a"] - 5 * Scale
    [] latex = CellEqOne  -> env["x"] + 3 * Scale - 5 * Scale

\* the function lambdify makes of the expression itself, called with the
\* arguments env: a symbol that is no argument is an undefined name and the call
\* raises; an Equality evaluates to its truth value
Func(latex, env) ==
  IF ~(FromLatex(latex).free_symbols \subseteq DOMAIN env) THEN [ok |-> FALSE, val |-> 0]
  ELSE IF FromLatex(latex).is_equality
       THEN [ok |-> TRUE, val |-> IF Residual(latex, env) = 0 THEN Scale ELSE 0]
       ELSE [ok |-> TRUE, val |-> Residual(latex, env)]

\* the function lambdify makes of equation.lhs - equation.rhs
ResidualFunc(latex, env) ==
  IF ~(FromLatex(latex).free_symbols \subseteq DOMAIN env) THEN [ok |-> FALSE, val |-> 0]
  ELSE [ok |-> TRUE, val |-> Residual(latex, env)]

\* '=' in latex
HasEqualsSign(latex) == \E k \in 1..Len(latex) : latex[k] = "="

(***************************************************************************)
(* The three applicability predicates: use_result of each meta function.   *)
(***************************************************************************)
\* meta_evaluate_numerical (evaluate_numerical.py lines 18-51)
MetaEvaluateNumerical(cell_latex, ctx) ==
  LET latex == Strip(cell_latex)
      expr == FromLatex(latex)
  IN  IF latex = <<>> THEN FALSE
      ELSE IF ~expr.ok THEN FALSE
      ELSE IF expr.is_equality THEN FALSE
      ELSE IF HasEqualsSign(latex) THEN FALSE
      ELSE LET has_context_variable == expr.free_symbols \cap ContextVarNames(ctx) # {}
           IN  IF ~has_context_variable /\ expr.free_symbols # {} THEN FALSE ELSE TRUE

\* a root finder that offers itself whatever the context holds
MetaFindRootsAnyContext(cell_latex, ctx) ==
  LET latex == Strip(cell_latex)
      expr == FromLatex(latex)
  IN  IF latex = <<>> THEN FALSE
      ELSE IF ~expr.ok THEN FALSE
      ELSE IF expr.is_equality THEN FALSE
      ELSE IF HasEqualsSign(latex) THEN FALSE
      ELSE Cardinality(expr.free_symbols) = 1

\* meta_find_roots (find_roots.py lines 18-51)
MetaFindRoots(cell_latex, ctx) ==
  LET latex == Strip(cell_latex)
      expr == FromLatex(latex)
  IN  IF latex = <<>> THEN FALSE
      ELSE IF ~expr.ok THEN FALSE
      ELSE IF expr.is_equality THEN FALSE
      ELSE IF HasEqualsSign(latex) THEN FALSE
      ELSE IF Cardinality(expr.free_symbols) # 1 THEN FALSE
      ELSE IF (CHOOSE n \in expr.free_symbols : TRUE) \in ContextVarNames(ctx) THEN FALSE
      ELSE TRUE

\* meta_solve_numerical (solve_numerical.py lines 20-53)
MetaSolveNumerical(cell_latex, ctx) ==
  LET latex == Strip(cell_latex)
      expr == FromLatex(latex)
  IN  IF latex = <<>> THEN FALSE
      ELSE IF ~expr.ok THEN FALSE
      ELSE IF ~expr.is_equality THEN FALSE
      ELSE IF expr.free_symbols = {} THEN FALSE
      ELSE LET has_unsolved_variable == expr.free_symbols \ ContextVarNames(ctx) # {}
           IN  IF ~has_unsolved_variable THEN FALSE ELSE TRUE

(***************************************************************************)
(* evaluate_numerical (evaluate_numerical.py lines 54-124).                *)
(***************************************************************************)
\* a CellFunctionResult, with the path that produced it:
\*   raised = "handler"  an exception reached the function's except clause
\*   raised = "fallback" the direct evaluation failed and to_latex was used
Result(fn, visible_solutions, new_context, kind, raised) ==
  [fn |-> fn, visible_solutions |-> visible_solutions, new_context |-> new_context,
   kind |-> kind, raised |-> raised]

\* f"Error ...: {str(e)}"
ErrorMessage(prefix, e) == <<prefix, e>>

\* an except clause that builds its result on a new, empty Context
FailureOnEmptyContext(fn, prefix, ctx) ==
  Result(fn, <<ErrorMessage(prefix, "exception")>>, <<>>, "error", "handler")

\* the except clause of a plug-in function (evaluate_numerical.py lines
\* 119-124, find_roots.py lines 129-134, solve_numerical.py lines 199-204):
\* one solution, the error message, and the context of the input
Failure(fn, prefix, ctx) ==
  Result(fn, <<ErrorMessage(prefix, "exception")>>, ctx, "error", "handler")

RECURSIVE PrefixAll(_, _)
PrefixAll(vals, rest) ==
  IF vals = <<>> THEN <<>>
  ELSE [k \in 1..Len(rest) |-> <<Head(vals)>> \o rest[k]] \o PrefixAll(Tail(vals), rest)

RECURSIVE PrefixEach(_, _)
\* the product with the first list varying fastest
PrefixEach(vals, rest) ==
  IF rest = <<>> THEN <<>>
  ELSE [k \in 1..Len(vals) |-> <<vals[k]>> \o Head(rest)] \o PrefixEach(vals, Tail(rest))

RECURSIVE ProductFastFirst(_)
ProductFastFirst(value_lists) ==
  IF value_lists = <<>> THEN << <<>> >>
  ELSE PrefixEach(Head(value_lists), ProductFastFirst(Tail(value_lists)))

RECURSIVE Product(_)
\* itertools.product(*value_lists), as the sequence it iterates over
Product(value_lists) ==
  IF value_lists = <<>> THEN << <<>> >>
  ELSE PrefixAll(Head(value_lists), Product(Tail(value_lists)))

RECURSIVE FromKeys(_)
\* list(dict.fromkeys(xs)): first occurrences, in order
FromKeys(xs) ==
  IF xs = <<>> THEN <<>>
  ELSE LET front == FromKeys(SubSeq(xs, 1, Len(xs) - 1))
           last == xs[Len(xs)]
       IN  IF \E k \in 1..Len(front) : front[k] = last THEN front ELSE Append(front, last)

RECURSIVE SelectVars(_, _, _)
\* the variables of ctx, in order, that are free symbols other than skip and
\* have at least one value
SelectVars(ctx, free_symbols, skip) ==
  IF ctx = <<>> THEN <<>>
  ELSE (IF Head(ctx).name \in free_symbols /\ Head(ctx).name # skip /\ Head(ctx).values # <<>>
        THEN <<Head(ctx)>> ELSE <<>>) \o SelectVars(Tail(ctx), free_symbols, skip)

\* lines 66-70: the context variables that occur in the expression and have values
ContextVarsWithValues(ctx, free_symbols) == SelectVars(ctx, free_symbols, "")

\* lines 82-99: one combination: the floats of the values, the call of func,
\* the rounding and the text of the result
EvaluateCombo(latex, var_symbols, value_combo) ==
  LET floats == [k \in 1..Len(value_combo) |-> ParseFloat(value_combo[k])]
      env == [n \in {var_symbols[k] : k \in 1..Len(var_symbols)} |->
                floats[CHOOSE k \in 1..Len(var_symbols) : var_symbols[k] = n].val]
      value == Func(latex, env)
  IN  IF \E k \in 1..Len(floats) : ~floats[k].ok THEN [ok |-> FALSE, text |-> <<>>]
      ELSE IF ~value.ok THEN [ok |-> FALSE, text |-> <<>>]
      ELSE [ok |-> TRUE, text |-> FloatStr(Round(value.val))]

EvaluateNumerical(cell_latex, ctx) ==
  LET latex == Strip(cell_latex)
      expr == FromLatex(latex)
      failure == Failure("evaluate_numerical", "Error evaluating expression: ", ctx)
      context_vars_with_values == ContextVarsWithValues(ctx, expr.free_symbols)
      var_symbols == [k \in 1..Len(context_vars_with_values) |->
                        context_vars_with_values[k].name]
      value_lists == [k \in 1..Len(context_vars_with_values) |->
                        context_vars_with_values[k].values]
      value_combos == Product(value_lists)
      evaluated == [k \in 1..Len(value_combos) |-> EvaluateCombo(latex, var_symbols, value_combos[k])]
      direct == Func(latex, <<>>)
  IN  IF ~expr.ok THEN failure
      ELSE IF context_vars_with_values # <<>>
      THEN IF \E k \in 1..Len(evaluated) : ~evaluated[k].ok THEN failure
           ELSE Result("evaluate_numerical",
                       FromKeys([k \in 1..Len(evaluated) |-> evaluated[k].text]),
                       ctx, "values", "none")
      ELSE IF direct.ok
      THEN Result("evaluate_numerical", FromKeys(<<FloatStr(Round(direct.val))>>),
                  ctx, "values", "none")
      ELSE Result("evaluate_numerical", FromKeys(<<ToLatex(latex)>>), ctx,
                  "symbolic", "fallback")

NoResult == Result("none", <<>>, <<>>, "none", "none")

\* initial_guesses (find_roots.py line 78, solve_numerical.py lines 133, 150)
InitialGuesses == <<-100, -10, -1, 0, 1, 10, 100>>

\* the interval of brentq (find_roots.py line 95, solve_numerical.py line 165)
BracketLow == -1000 * Scale
BracketHigh == 1000 * Scale

(***************************************************************************)
(* fsolve and brentq are external.  A call of fsolve raises or returns a   *)
(* point: a point at or next to a root of the catalogue's expressions, or  *)
(* a point away from all of them (no convergence).  brentq raises when the *)
(* function has the same sign at both ends of the interval and else may    *)
(* return any such point, or raise.                                        *)
(***************************************************************************)
Candidates == {-2 * Scale, 2 * Scale - 1, 2 * Scale + 1, 5 * Scale}

Raises == [raised |-> TRUE, root |-> 0]
Returns(c) == [raised |-> FALSE, root |-> c]

\* the points at which the model calls a function handed to a solver
Points ==
  Candidates \cup {Round(c) : c \in Candidates}
    \cup {InitialGuesses[k] * Scale : k \in 1..Len(InitialGuesses)}
    \cup {BracketLow, BracketHigh}

\* F[c] is [ok, val]: the function handed to the solver, at the point c
FsolveOutcomes(F, guess) ==
  IF ~F[guess * Scale].ok THEN {Raises}
  ELSE {Raises} \cup {Returns(c) : c \in Candidates}

BrentqOutcomes(F) ==
  IF ~F[BracketLow].ok \/ ~F[BracketHigh].ok THEN {Raises}
  ELSE IF (F[BracketLow].val > 0 /\ F[BracketHigh].val > 0)
            \/ (F[BracketLow].val < 0 /\ F[BracketHigh].val < 0)
  THEN {Raises}
  ELSE {Raises} \cup {Returns(c) : c \in Candidates}

\* find_roots.py lines 83-89, solve_numerical.py lines 136-142 and 153-158:
\* the roots after one fsolve attempt with outcome out
AfterFsolve(F, roots, out) ==
  IF out.raised THEN roots
  ELSE IF F[out.root].ok /\ Abs(F[out.root].val) < Tolerance
       THEN roots \cup {Round(out.root)}
       ELSE roots

\* find_roots.py lines 95-98, solve_numerical.py lines 165-168: the roots after
\* the brentq attempt; the rounded root is the one checked
AfterBrentq(F, roots, out) ==
  IF out.raised THEN roots
  ELSE IF F[Round(out.root)].ok /\ Abs(F[Round(out.root)].val) < Tolerance
       THEN roots \cup {Round(out.root)}
       ELSE roots

RECURSIVE SortedDescending(_)
SortedDescending(S) ==
  IF S = {} THEN <<>>
  ELSE LET m == CHOOSE x \in S : \A y \in S : y <= x
       IN  <<m>> \o SortedDescending(S \ {m})

RECURSIVE Sorted(_)
\* sorted(S) of a set of floats
Sorted(S) ==
  IF S = {} THEN <<>>
  ELSE LET m == CHOOSE x \in S : \A y \in S : x <= y
       IN  <<m>> \o Sorted(S \ {m})

\* the list kept as it is
KeepVariables(variables, name) == variables

RECURSIVE WithoutName(_, _)
\* [v for v in new_variables if v.name != str(var)]
WithoutName(variables, name) ==
  IF variables = <<>> THEN <<>>
  ELSE (IF Head(variables).name # name THEN <<Head(variables)>> ELSE <<>>)
         \o WithoutName(Tail(variables), name)

\* f"{var} = {root}"
SolutionLine(name, root) == <<name, " ", "=", " ">> \o FloatStr(root)

\* a result that shows the roots and hands back the context it was given
FormatResultKeepsContext(fn, ctx, name, roots, none_found) ==
  LET ordered == Sorted(roots)
      visible_solutions == [k \in 1..Len(ordered) |-> SolutionLine(name, ordered[k])]
  IN  IF roots # {}
      THEN Result(fn, visible_solutions, ctx, "roots", "none")
      ELSE Result(fn, <<none_found>>, ctx, "noroots", "none")

\* find_roots.py lines 102-127, solve_numerical.py lines 172-197: the result
\* made of the roots found
FormatResult(fn, ctx, name, roots, none_found) ==
  LET ordered == Sorted(roots)
      visible_solutions == [k \in 1..Len(ordered) |-> SolutionLine(name, ordered[k])]
      solution_strings == [k \in 1..Len(ordered) |-> FloatStr(ordered[k])]
      new_var == CreateNumerical(name, solution_strings)
  IN  IF roots # {}
      THEN Result(fn, visible_solutions, Append(WithoutName(ctx, name), new_var),
                  "roots", "none")
      ELSE Result(fn, <<none_found>>, ctx, "noroots", "none")

\* a call is made between calls, on the threaded context
CanCall == ppc = "idle"

\* a call that returns at once with result r
Return(c, r) ==
  /\ context' = context
  /\ cell' = c
  /\ result' = r
  /\ ppc' = "returned"
  /\ var' = ""
  /\ branch' = "none"
  /\ combos' = <<>>
  /\ ci' = 1
  /\ gi' = 1
  /\ roots_found' = {}
  /\ fsolve_calls' = 0
  /\ brentq_calls' = 0
  /\ UNCHANGED macroVars

\* a call that enters its solver loop
Search(c, name, br, cs) ==
  /\ context' = context
  /\ cell' = c
  /\ result' = NoResult
  /\ ppc' = "search"
  /\ var' = name
  /\ branch' = br
  /\ combos' = cs
  /\ ci' = 1
  /\ gi' = 1
  /\ roots_found' = {}
  /\ fsolve_calls' = 0
  /\ brentq_calls' = 0
  /\ UNCHANGED macroVars

PlugInit ==
  /\ context \in InitContexts
  /\ cell = <<>>
  /\ result = NoResult
  /\ ppc = "idle"
  /\ var = ""
  /\ branch = "none"
  /\ combos = <<>>
  /\ ci = 1
  /\ gi = 1
  /\ roots_found = {}
  /\ fsolve_calls = 0
  /\ brentq_calls = 0

(***************************************************************************)
(* Actions of the cell plug-ins.                                           *)
(***************************************************************************)
\* the worksheet hands the new_context of a call to the next call; a meta
\* function returns no context and the worksheet keeps its own
ThreadContext ==
  /\ ppc = "returned"
  /\ context' = IF result.kind = "meta" THEN context ELSE result.new_context
  /\ cell' = <<>>
  /\ result' = NoResult
  /\ ppc' = "idle"
  /\ var' = ""
  /\ branch' = "none"
  /\ combos' = <<>>
  /\ ci' = 1
  /\ gi' = 1
  /\ roots_found' = {}
  /\ fsolve_calls' = 0
  /\ brentq_calls' = 0
  /\ UNCHANGED macroVars

\* a MetaFunctionResult: the function and its use_result
MetaResult(fn, use) == [fn |-> fn, kind |-> "meta", raised |-> "none", use_result |-> use]

\* meta_evaluate_numerical, the whole call
CallMetaEvaluateNumerical ==
  /\ CanCall
  /\ \E c \in Cells :
       Return(c, MetaResult("meta_evaluate_numerical", MetaEvaluateNumerical(c, context)))

\* meta_find_roots, the whole call
CallMetaFindRoots ==
  /\ CanCall
  /\ \E c \in Cells : Return(c, MetaResult("meta_find_roots", MetaFindRoots(c, context)))

\* meta_solve_numerical, the whole call
CallMetaSolveNumerical ==
  /\ CanCall
  /\ \E c \in Cells :
       Return(c, MetaResult("meta_solve_numerical", MetaSolveNumerical(c, context)))

\* evaluate_numerical, the whole call
CallEvaluateNumerical ==
  /\ CanCall
  /\ \E c \in Cells : Return(c, EvaluateNumerical(c, context))

\* find_roots.py lines 59-63 and 129-134: the expression does not parse
FindRootsParseError ==
  /\ CanCall
  /\ \E c \in Cells :
       /\ ~FromLatex(Strip(c)).ok
       /\ Return(c, Failure("find_roots", "Error finding roots: ", context))

\* find_roots.py lines 66-70: not exactly one free symbol
FindRootsRefuses ==
  /\ CanCall
  /\ \E c \in Cells :
       /\ FromLatex(Strip(c)).ok
       /\ Cardinality(FromLatex(Strip(c)).free_symbols) # 1
       /\ Return(c, Result("find_roots", <<<<"Root finding requires exactly one variable">>>>,
                           context, "refused", "none"))

\* find_roots.py lines 72-79: the search starts
FindRootsBegin ==
  /\ CanCall
  /\ \E c \in Cells :
       /\ FromLatex(Strip(c)).ok
       /\ Cardinality(FromLatex(Strip(c)).free_symbols) = 1
       /\ Search(c, CHOOSE n \in FromLatex(Strip(c)).free_symbols : TRUE, "none", <<>>)

\* func of find_roots: lambdify(var, expr)
RootFunc == [c \in Points |-> Func(Strip(cell), [n \in {var} |-> c])]

\* find_roots.py lines 81-91: one initial guess
FindRootsFsolve ==
  /\ ppc = "search"
  /\ branch = "none"
  /\ gi <= Len(InitialGuesses)
  /\ \E out \in FsolveOutcomes(RootFunc, InitialGuesses[gi]) :
       roots_found' = AfterFsolve(RootFunc, roots_found, out)
  /\ gi' = gi + 1
  /\ fsolve_calls' = fsolve_calls + 1
  /\ UNCHANGED <<macroVars, context, cell, result, ppc, var, branch, combos, ci, brentq_calls>>

\* find_roots.py lines 93-127: the interval attempt and the result
FindRootsFinish ==
  /\ ppc = "search"
  /\ branch = "none"
  /\ gi > Len(InitialGuesses)
  /\ \E out \in BrentqOutcomes(RootFunc) :
       LET roots == AfterBrentq(RootFunc, roots_found, out)
       IN  /\ roots_found' = roots
           /\ result' = FormatResult("find_roots", context, var, roots,
                                     <<"No roots found for expression">>)
  /\ brentq_calls' = brentq_calls + 1
  /\ ppc' = "returned"
  /\ UNCHANGED <<macroVars, context, cell, var, branch, combos, ci, gi, fsolve_calls>>

(***************************************************************************)
(* solve_numerical (solve_numerical.py lines 56-204).                      *)
(***************************************************************************)
\* sorted(variables, key=str) over the names of the model
NameOrder == <<"a", "x">>

\* lines 90-94: the first free symbol, by name, that is not in the context;
\* "" when there is none
SolveVariable(free_symbols, ctx) ==
  LET open == {k \in 1..Len(NameOrder) :
                 NameOrder[k] \in free_symbols /\ NameOrder[k] \notin ContextVarNames(ctx)}
  IN  IF open = {} THEN "" ELSE NameOrder[CHOOSE k \in open : \A j \in open : k <= j]

RECURSIVE SelectAllVars(_, _, _)
\* lines 104-108: the context variables, in order, that are free symbols other
\* than the solved one (whatever their values)
SelectAllVars(ctx, free_symbols, skip) ==
  IF ctx = <<>> THEN <<>>
  ELSE (IF Head(ctx).name \in free_symbols /\ Head(ctx).name # skip
        THEN <<Head(ctx)>> ELSE <<>>) \o SelectAllVars(Tail(ctx), free_symbols, skip)

\* lines 68-101: the message of a call that returns before any search, or <<>>
SolveRefusal(expr, ctx) ==
  IF ~expr.is_equality THEN <<"Unable to solve: not an equation">>
  ELSE IF expr.free_symbols = {} THEN <<"No variables to solve for">>
  ELSE IF SolveVariable(expr.free_symbols, ctx) = ""
  THEN <<"All variables already defined in context">>
  ELSE <<>>

\* lines 61-65 and 199-204: the equation does not parse
SolveParseError ==
  /\ CanCall
  /\ \E c \in Cells :
       /\ ~FromLatex(Strip(c)).ok
       /\ Return(c, Failure("solve_numerical", "Error solving equation numerically: ", context))

\* lines 68-101: no equation, no variable, or every variable in the context
SolveRefuses ==
  /\ CanCall
  /\ \E c \in Cells :
       /\ FromLatex(Strip(c)).ok
       /\ SolveRefusal(FromLatex(Strip(c)), context) # <<>>
       /\ Return(c, Result("solve_numerical",
                           <<SolveRefusal(FromLatex(Strip(c)), context)>>,
                           context, "refused", "none"))

\* lines 103-122 and 145-150: the variable, the combinations, the branch
SolveBegin ==
  /\ CanCall
  /\ \E c \in Cells :
       LET expr == FromLatex(Strip(c))
           name == SolveVariable(expr.free_symbols, context)
           context_vars_with_values == SelectAllVars(context, expr.free_symbols, name)
           value_lists == [k \in 1..Len(context_vars_with_values) |->
                             context_vars_with_values[k].values]
       IN  /\ expr.ok
           /\ SolveRefusal(expr, context) = <<>>
           /\ IF context_vars_with_values # <<>>
              THEN Search(c, name, "combos", Product(value_lists))
              ELSE Search(c, name, "direct", << <<>> >>)

\* var_symbols of the current call
VarSymbols ==
  LET vs == SelectAllVars(context, FromLatex(Strip(cell)).free_symbols, var)
  IN  [k \in 1..Len(vs) |-> vs[k].name]

\* line 124: sympify(v) raises on a text it cannot parse
SympifyOk(value_combo) == \A k \in 1..Len(value_combo) : ParseFloat(value_combo[k]).ok

\* lines 124-130 and 147: func, the residual with the combination substituted
SolveFunc ==
  LET value_combo == IF branch = "direct" THEN <<>> ELSE combos[ci]
      symbols == VarSymbols
      known == {symbols[k] : k \in 1..Len(value_combo)}
  IN  [c \in Points |->
         ResidualFunc(Strip(cell),
           [n \in known \cup {var} |->
              IF n = var THEN c
              ELSE ParseFloat(value_combo[CHOOSE k \in 1..Len(value_combo) : symbols[k] = n]).val])]

\* line 124 and 199-204: a value of the combination cannot be parsed
SolveSympifyError ==
  /\ ppc = "search"
  /\ branch = "combos"
  /\ ci <= Len(combos)
  /\ gi = 1
  /\ ~SympifyOk(combos[ci])
  /\ result' = Failure("solve_numerical", "Error solving equation numerically: ", context)
  /\ ppc' = "returned"
  /\ UNCHANGED <<macroVars, context, cell, var, branch, combos, ci, gi, roots_found, fsolve_calls,
                 brentq_calls>>

\* lines 134-144 and 151-160: one initial guess, for the current combination
SolveFsolve ==
  /\ ppc = "search"
  /\ branch \in {"combos", "direct"}
  /\ ci <= Len(combos)
  /\ SympifyOk(combos[ci])
  /\ \E out \in FsolveOutcomes(SolveFunc, InitialGuesses[gi]) :
       roots_found' = AfterFsolve(SolveFunc, roots_found, out)
  /\ IF gi < Len(InitialGuesses)
     THEN gi' = gi + 1 /\ ci' = ci
     ELSE gi' = 1 /\ ci' = ci + 1
  /\ fsolve_calls' = fsolve_calls + 1
  /\ UNCHANGED <<macroVars, context, cell, result, ppc, var, branch, combos, brentq_calls>>

\* the message of lines 188-189
NoSolution == <<"No numerical solution found for ", var>>

\* lines 162-170 and 172-197: nothing found without context values, the
\* interval attempt is made, then the result
SolveFinishBracketed ==
  /\ ppc = "search"
  /\ branch = "direct"
  /\ ci > Len(combos)
  /\ roots_found = {}
  /\ \E out \in BrentqOutcomes(SolveFunc) :
       LET roots == AfterBrentq(SolveFunc, roots_found, out)
       IN  /\ roots_found' = roots
           /\ result' = FormatResult("solve_numerical", context, var, roots, NoSolution)
  /\ brentq_calls' = brentq_calls + 1
  /\ ppc' = "returned"
  /\ UNCHANGED <<macroVars, context, cell, var, branch, combos, ci, gi, fsolve_calls>>

\* lines 172-197: the result, with no interval attempt
SolveFinish ==
  /\ ppc = "search"
  /\ branch \in {"combos", "direct"}
  /\ ci > Len(combos)
  /\ branch = "direct" => roots_found # {}
  /\ result' = FormatResult("solve_numerical", context, var, roots_found, NoSolution)
  /\ ppc' = "returned"
  /\ UNCHANGED <<macroVars, context, cell, var, branch, combos, ci, gi, roots_found, fsolve_calls,
                 brentq_calls>>

(***************************************************************************)
(* The specifications.  Spec runs the cell plug-ins on a threaded context; *)
(* MacroSpec runs the macro and its meta function on one input text.       *)
(***************************************************************************)
MacroIdle ==
  /\ segs = <<>>
  /\ input_latex = <<>>
  /\ modified_latex = <<>>
  /\ pc = "done"
  /\ stop = "none"
  /\ before = <<>>
  /\ rewrites = <<>>
  /\ meta_called = FALSE
  /\ use_result = FALSE

PlugIdle ==
  /\ context = <<>>
  /\ cell = <<>>
  /\ result = NoResult
  /\ ppc = "off"
  /\ var = ""
  /\ branch = "none"
  /\ combos = <<>>
  /\ ci = 1
  /\ gi = 1
  /\ roots_found = {}
  /\ fsolve_calls = 0
  /\ brentq_calls = 0

Init == MacroIdle /\ PlugInit

Next ==
  \/ ThreadContext
  \/ CallMetaEvaluateNumerical
  \/ CallMetaFindRoots
  \/ CallMetaSolveNumerical
  \/ CallEvaluateNumerical
  \/ FindRootsParseError
  \/ FindRootsRefuses
  \/ FindRootsBegin
  \/ FindRootsFsolve
  \/ FindRootsFinish
  \/ SolveParseError
  \/ SolveRefuses
  \/ SolveBegin
  \/ SolveSympifyError
  \/ SolveFsolve
  \/ SolveFinishBracketed
  \/ SolveFinish

Spec == Init /\ [][Next]_vars

MacroStart == MacroInit /\ PlugIdle

MacroStep ==
  \/ MetaEvaluateNumFunctions
  \/ NoMatch
  \/ Unmatched
  \/ Rewrite
  \/ EvalFail

MacroSpec == MacroStart /\ [][MacroStep]_vars

\* texts with an operand that is a symbol of the context
LoopSegs == {"ny", "npi", "nbad", "nopen", "plus"}

\* input_data.context of the macro: no variable, y bound to a number, y bound
\* to an expression that is a function of y
MacroContexts ==
  {<<>>,
   <<[name |-> "y", type |-> "numerical", values |-> <<<<"3">>>>]>>,
   <<[name |-> "y", type |-> "analytical", values |-> <<<<"n", "(", "y", ")">>>>]>>}

LoopStart ==
  /\ segs \in SeqsUpTo(LoopSegs, MaxSegs) \ {<<>>}
  /\ input_latex = Flatten(segs)
  /\ modified_latex = input_latex
  /\ pc = "loop"
  /\ stop = "none"
  /\ before = input_latex
  /\ rewrites = <<>>
  /\ meta_called = FALSE
  /\ use_result = FALSE
  /\ context \in MacroContexts
  /\ cell = <<>>
  /\ result = NoResult
  /\ ppc = "off"
  /\ var = ""
  /\ branch = "none"
  /\ combos = <<>>
  /\ ci = 1
  /\ gi = 1
  /\ roots_found = {}
  /\ fsolve_calls = 0
  /\ brentq_calls = 0

LoopSpec == LoopStart /\ [][MacroStep]_vars

(***************************************************************************)
(* Claims about the macro, checked under MacroSpec.                        *)
(***************************************************************************)
\* the pattern  \\?num\s*\(  of the specification occurs in t
ContainsNumCall(t) ==
  \E p \in 1..Len(t) :
    /\ IsAt(t, p, <<"n","u","m">>)
    /\ IsAt(t, SkipWhitespace(t, p + 3), <<"(">>)

\* C1: meta_evaluate_num_functions returns use_result = true exactly when the
\* raw LaTeX text contains an optional backslash, the literal num, optional
\* whitespace and an opening parenthesis.
C1_UseResultIffNumCall ==
  meta_called => (use_result <=> ContainsNumCall(input_latex))

\* an input made only of well-formed num(...) occurrences with an operand that
\* evaluates, and of text outside them, with at least one occurrence
WellFormedNumInput(ss) ==
  /\ \A k \in 1..Len(ss) : ss[k] \in {"numpi", "plus"}
  /\ \E k \in 1..Len(ss) : ss[k] = "numpi"

RECURSIVE Expanded(_)
\* such an input with every num(...) occurrence replaced by the text of its value
Expanded(ss) ==
  IF ss = <<>> THEN <<>>
  ELSE (IF Head(ss) = "numpi" THEN PiText ELSE SegText(Head(ss))) \o Expanded(Tail(ss))

\* C2: for a text made of k >= 1 well-formed num(...) occurrences whose
\* operands evaluate, evaluate_num_functions replaces every occurrence by the
\* text of its value, leaves the characters outside them unaltered and returns
\* a text in which no trigger remains.
C2_EveryNumCallExpanded ==
  (pc = "done" /\ WellFormedNumInput(segs)) =>
    /\ modified_latex = Expanded(segs)
    /\ ~ContainsNumCall(modified_latex)

\* C3: when the operand of a matched occurrence fails to parse or evaluate,
\* the returned text equals the text as it stood just before that occurrence
\* was processed (earlier rewrites kept, this and later occurrences untouched).
C3_FailureKeepsText ==
  stop = "evalfail" => (pc = "done" /\ modified_latex = before)

\* the occurrence matched in t is never closed: from the character after its
\* opening parenthesis, counting ( and \left( as +1 and ) and \right) as -1,
\* the depth stays above 0 to the end of the text
Depth(t, from, to) ==
  1 + Cardinality({j \in from..to : t[j] = "("})
    - Cardinality({j \in from..to : t[j] = ")"})

UnclosedOccurrence(t) ==
  /\ SearchStart(t) # 0
  /\ \A k \in MatchEndAt(t, SearchStart(t))..Len(t) :
       Depth(t, MatchEndAt(t, SearchStart(t)), k) > 0

IterationRun == stop # "none" \/ rewrites # <<>>

\* C4: when the scan of a matched occurrence reaches the end of the text with
\* depth > 0, the loop stops and the text is returned as it stood (earlier
\* rewrites kept); when that occurrence is the first one, and for the input
\* num(\pi without its closing parenthesis, the returned text is the input.
C4_UnmatchedReturnsText ==
  /\ (IterationRun /\ UnclosedOccurrence(before)) =>
       (pc = "done" /\ stop = "unmatched" /\ modified_latex = before)
  /\ stop = "unmatched" => UnclosedOccurrence(before)
  /\ (stop = "unmatched" /\ rewrites = <<>>) => modified_latex = input_latex
  /\ (pc = "done" /\ segs = <<"numopen">>) => modified_latex = input_latex

\* an earlier occurrence was rewritten, then an unclosed one stopped the loop
C4_Witness ==
  /\ stop = "unmatched"
  /\ rewrites # <<>>
  /\ modified_latex # input_latex


(***************************************************************************)
(* Claims about the cell plug-ins, checked under Spec.                     *)
(***************************************************************************)
\* a call of find_roots or solve_numerical has run its search and returned
SearchReturned ==
  /\ ppc = "returned"
  /\ result.fn \in {"find_roots", "solve_numerical"}
  /\ result.kind \in {"roots", "noroots"}

\* the text after "<name> = " of a solution line
LineValue(line) == SubSeq(line, 5, Len(line))

\* the variables of a context that carry the name
Named(ctx, name) == {k \in 1..Len(ctx) : ctx[k].name = name}

\* C5: when the search of find_roots or solve_numerical has accepted at least
\* one root for the variable, there is exactly one line "<var> = <value>" per
\* distinct rounded root, the values strictly ascending as numbers, and the
\* new context holds one numerical variable of that name whose values are the
\* texts of those lines in the same order; when no root was accepted there is
\* the single line that says so and the new context is the input context.
C5_RootsSortedDistinct ==
  SearchReturned =>
    LET lines == result.visible_solutions
        at == Named(result.new_context, var)
    IN  IF roots_found # {}
        THEN /\ Len(lines) = Cardinality(roots_found)
             /\ \A r \in roots_found :
                  \E k \in 1..Len(lines) : lines[k] = <<var, " ", "=", " ">> \o FloatStr(r)
             /\ \A k \in 1..Len(lines) - 1 :
                  ParseFloat(LineValue(lines[k])).val < ParseFloat(LineValue(lines[k + 1])).val
             /\ Cardinality(at) = 1
             /\ \A k \in at :
                  /\ result.new_context[k].type = "numerical"
                  /\ result.new_context[k].values = [j \in 1..Len(lines) |-> LineValue(lines[j])]
        ELSE /\ Len(lines) = 1
             /\ lines[1] \in {<<"No roots found for expression">>,
                               <<"No numerical solution found for ", var>>}
             /\ result.new_context = context

\* find_roots returns two roots, a negative and a positive one, for a variable
\* the context already held
C5_Witness ==
  /\ SearchReturned
  /\ result.fn = "find_roots"
  /\ Cardinality(roots_found) = 2
  /\ Len(result.visible_solutions) = 2
  /\ var \in ContextVarNames(context)


\* C6: in solve_numerical, when other free variables have context values, the
\* search run for each combination is the search of find_roots: one fsolve
\* attempt per initial guess and one brentq attempt over the interval.
C6_CombinationSearchAsFindRoots ==
  (SearchReturned /\ result.fn = "solve_numerical" /\ branch = "combos") =>
    /\ fsolve_calls = Len(InitialGuesses) * Len(combos)
    /\ brentq_calls = Len(combos)


RECURSIVE WithoutEmpty(_)
\* the context with its empty-values variables taken out
WithoutEmpty(ctx) ==
  IF ctx = <<>> THEN <<>>
  ELSE (IF Head(ctx).values # <<>> THEN <<Head(ctx)>> ELSE <<>>) \o WithoutEmpty(Tail(ctx))

\* C7: a context variable with no values is treated as absent: each of the
\* three meta functions returns the use_result, and evaluate_numerical and a
\* refusing solve_numerical the visible solutions, that they return on the
\* context without its empty-values variables.
C7_EmptyValuesAbsent ==
  ppc = "returned" =>
    LET reduced == WithoutEmpty(context)
    IN  /\ result.fn = "meta_evaluate_numerical" =>
             result.use_result = MetaEvaluateNumerical(cell, reduced)
        /\ result.fn = "meta_find_roots" =>
             result.use_result = MetaFindRoots(cell, reduced)
        /\ result.fn = "meta_solve_numerical" =>
             result.use_result = MetaSolveNumerical(cell, reduced)
        /\ result.fn = "evaluate_numerical" =>
             result.visible_solutions = EvaluateNumerical(cell, reduced).visible_solutions
        /\ (result.fn = "solve_numerical" /\ result.kind = "refused") =>
             result.visible_solutions = <<SolveRefusal(FromLatex(Strip(cell)), reduced)>>


\* no two variables of the context carry the same name
UniqueNames(ctx) == \A j, k \in 1..Len(ctx) : ctx[j].name = ctx[k].name => j = k

\* C8: variable names are unique within the context a sequence of plug-in
\* calls is run on, and within the new_context every call returns.
C8_NamesUnique ==
  /\ UniqueNames(context)
  /\ (ppc = "returned" /\ result.kind # "meta") => UniqueNames(result.new_context)

\* a second search finds roots for a variable that an earlier search of the
\* sequence had put into the context, next to another variable
C8_Witness ==
  /\ SearchReturned
  /\ result.kind = "roots"
  /\ Len(context) = 2
  /\ \E k \in Named(context, var) : <<"2", ".", "0">> \in {context[k].values[j] : j \in 1..Len(context[k].values)}
  /\ Len(result.new_context) = 2


\* a plug-in function has returned its CellFunctionResult
PluginReturned == ppc = "returned" /\ result.kind # "meta"

\* the line is one of the error messages of the three except clauses
IsErrorMessage(line) ==
  /\ Len(line) = 2
  /\ line[1] \in {"Error evaluating expression: ", "Error finding roots: ",
                  "Error solving equation numerically: "}

BoundPositions ==
  LET free == FromLatex(Strip(cell)).free_symbols
      at == {k \in 1..Len(context) : context[k].name \in free}
      Rank(k) == Cardinality({j \in at : j <= k})
  IN  [r \in 1..Cardinality(at) |-> CHOOSE k \in at : Rank(k) = r]

\* the number of values of the r-th bound variable
Size(r) == Len(context[BoundPositions[r]].values)

RECURSIVE Stride(_)
\* the number of combinations over the bound variables to the right of the r-th
Stride(r) == IF r >= Len(BoundPositions) THEN 1 ELSE Size(r + 1) * Stride(r + 1)

\* the value the n-th combination (from 0) takes from the r-th bound variable
\* when the leftmost variable varies slowest
ValueAt(n, r) == context[BoundPositions[r]].values[((n \div Stride(r)) % Size(r)) + 1]

\* the evaluation of the cell's expression at the n-th combination
EvaluationAt(n) ==
  LET env == [name \in {context[BoundPositions[r]].name : r \in 1..Len(BoundPositions)} |->
                LET r == CHOOSE q \in 1..Len(BoundPositions) :
                           context[BoundPositions[q]].name = name
                IN  ParseFloat(ValueAt(n, r)).val]
  IN  FloatStr(Round(Func(Strip(cell), env).val))

\* evaluate_numerical has returned on an expression whose free variables are
\* all bound with values, each the text of a number
AllBoundEvaluated ==
  /\ ppc = "returned"
  /\ result.fn = "evaluate_numerical"
  /\ FromLatex(Strip(cell)).free_symbols # {}
  /\ FromLatex(Strip(cell)).free_symbols \subseteq ContextVarNames(context)
  /\ \A r \in 1..Len(BoundPositions) :
       /\ Size(r) > 0
       /\ \A j \in 1..Size(r) : ParseFloat(context[BoundPositions[r]].values[j]).ok

MetaReturned == ppc = "returned" /\ result.kind = "meta"

\* the use_result of the three cell-solution predicates on the cell and the
\* context of the call that has returned
UseResults ==
  [meta_evaluate_numerical |-> MetaEvaluateNumerical(cell, context),
   meta_find_roots |-> MetaFindRoots(cell, context),
   meta_solve_numerical |-> MetaSolveNumerical(cell, context)]

\* C11: for every cell and context at most one of meta_evaluate_numerical,
\* meta_find_roots and meta_solve_numerical returns use_result = true: the
\* predicate that has returned true is the only one that does on that cell
\* and context, and the solver's predicate is true on equations only, the
\* other two on non-equations only.
C11_AtMostOnePredicate ==
  MetaReturned =>
    /\ result.use_result = UseResults[result.fn]
    /\ result.use_result =>
         \A fn \in DOMAIN UseResults : UseResults[fn] => fn = result.fn
    /\ (result.use_result /\ result.fn = "meta_solve_numerical") =>
         FromLatex(Strip(cell)).is_equality
    /\ (result.use_result /\ result.fn # "meta_solve_numerical") =>
         ~FromLatex(Strip(cell)).is_equality

\* meta_evaluate_numerical has returned true on a one-variable expression
\* whose variable a root search had put into the context
C11_Witness ==
  /\ MetaReturned
  /\ result.fn = "meta_evaluate_numerical"
  /\ result.use_result
  /\ Cardinality(FromLatex(Strip(cell)).free_symbols) = 1
  /\ \E k \in 1..Len(context) :
       /\ context[k].name \in FromLatex(Strip(cell)).free_symbols
       /\ context[k].values = <<<<"-", "2", ".", "0">>, <<"2", ".", "0">>>>


\* find_roots has returned roots on a cell and a context for which
\* meta_find_roots is true
RootsHandedOff ==
  /\ SearchReturned
  /\ result.fn = "find_roots"
  /\ roots_found # {}
  /\ MetaFindRoots(cell, context)

\* the evaluation of the cell's expression at a stored root
EvaluationAtRoot(r) ==
  FloatStr(Round(Func(Strip(cell), [n \in {var} |-> ParseFloat(FloatStr(r)).val]).val))

C13_LoopTerminates ==
  [][(pc = "loop" /\ pc' = "loop" /\ rewrites' # rewrites)
       => modified_latex' # modified_latex]_vars

=============================================================================
